---------------------------- MODULE Spec2Model ----------------------------
(***************************************************************************)
(* Model of the concurrent inference dispatch engine of                    *)
(* bfcl_eval/_llm_response_generation.py: collect_test_cases, the          *)
(* submission loop and the as_completed loop of generate_results, the      *)
(* retry loop of multi_threaded_inference and the stall watchdog.          *)
(*                                                                         *)
(* Threads: the main thread (main_pc), the pool workers (one position      *)
(* pc[j] per job, at most NumThreads of them running), the watchdog        *)
(* (wd_pc) and the display thread (display_pc).  Times are counted in half *)
(* seconds where the code sleeps in slices of 0.5 s (elapsed2 = 2 *        *)
(* elapsed).                                                               *)
(***************************************************************************)
EXTENDS Integers, Sequences, FiniteSets, TLC

\* ------------------------------------------------------------ bounds ----
\* Number of catalogue entries (test cases) of the invocation.
NumJobs == 9
\* Largest number of entries without a persisted result in a run of Spec.
MaxPending == 3
\* args.num_threads, the pool size.
NumThreads == 2
\* Transient failures (rate limit, timeout) the endpoint raises in one run.
MaxTransient == 1
\* Pulses of the stall signal in one run (stall_watchdog.poke_count).
MaxPokes == 1
\* Passes of the wait loop after which the rest of the wait is taken in one
\* step: the passes in which another thread may have set the stall signal.
MaxPolledSlices == 1
\* Largest active count fed to the delay table in SpecDelay.
MaxCount == 12
\* Transient failures of the one job of SpecRetry: more than RETRY_LIMIT.
MaxRetries == 5
\* Longest idle time SpecClock counts, in half seconds.
MaxIdle2 == 42
\* Pulses of the stall signal in one run of SpecClock.
MaxClockPokes == 3
\* Jobs whose worker returns or raises in one run of SpecClock.
MaxClockEnded == 2
\* Transient failures (hence waits) in a run of SpecWait.
MaxWaiters == 1
\* Transient failures in a run of SpecCount, over its two jobs.
MaxCounted == 3
\* fan_approach_stochastic_test.py line 24: NUM_RUNS = 50, the runs per
\* configuration; two here.
NUM_RUNS == 2
\* Longest idle time SpecDisplay counts, in half seconds: past the first poke.
MaxDisplayIdle2 == 22

\* ------------------------------------------------- program constants ----
RETRY_LIMIT == 3
RETRY_DELAY == 65
\* get_active_test_count's default when the callback is not on the job.
DEFAULT_ACTIVE_COUNT == 999
\* The watchdog only acts with at most this many jobs in flight.
STALL_MAX_ACTIVE == 8
\* Idle seconds after which the watchdog pokes, and the poke period.
STALL_IDLE_SECONDS == 10
STALL_POKE_PERIOD == 10

Ids == 1..NumJobs

\* ------------------------------------------------ errors and messages ----
\* An exception raised by handler.inference: status_code (0: the exception
\* has no status_code attribute) and the message, a set of text fragments.
NoStatus == 0

\* str.lower() on one fragment of a message.
LowerFragment(t) ==
    CASE t = "Rate limit reached" -> "rate limit reached"
      [] t = "Request Timeout"    -> "request timeout"
      [] t = "Content_Filter"     -> "content_filter"
      [] OTHER                    -> t

\* str(e).lower()
Lower(msg) == { LowerFragment(t) : t \in msg }

\* phrase in fragment (Python's substring test), for the phrases the code
\* looks for and the fragments the model's messages are made of.
IsSubstring(phrase, t) ==
    CASE phrase = "rate limit reached" -> t \in {"rate limit reached"}
      [] phrase = "rate limit"         -> t \in {"rate limit reached",
                                                 "rate limit exceeded"}
      [] phrase = "timeout"            -> t \in {"timeout", "request timeout"}
      [] phrase = "timed out"          -> t \in {"timed out", "read timed out"}
      [] phrase = "read timed out"     -> t \in {"read timed out"}
      [] phrase = "overload_zh"        -> t \in {"overload_zh"}
      [] phrase = "relay error"        -> t \in {"relay error"}
      [] phrase = "content_filter"     -> t \in {"content_filter"}
      [] phrase = "content management policy"
                                       -> t \in {"content management policy"}
      [] OTHER                         -> FALSE

\* phrase in s
Contains(s, phrase) == \E t \in s : IsSubstring(phrase, t)

\* The exceptions handler.inference raises in the model.
ErrorInputs ==
    { [status_code |-> NoStatus, msg |-> {"Rate limit reached"}],
      [status_code |-> 429,      msg |-> {"Rate limit reached"}],
      [status_code |-> 429,      msg |-> {"too many requests"}],
      [status_code |-> 503,      msg |-> {"overload_zh"}],
      [status_code |-> NoStatus, msg |-> {"read timed out"}],
      [status_code |-> 429,      msg |-> {"Request Timeout"}],
      [status_code |-> NoStatus, msg |-> {"invalid json"}],
      [status_code |-> 400,      msg |-> {"content_filter"}],
      [status_code |-> 500,      msg |-> {"content_filter"}],
      [status_code |-> NoStatus, msg |-> {"content management policy"}],
      [status_code |-> NoStatus, msg |-> {"rate limit exceeded"}] }

\* The exceptions handler.inference raises in a dispatch run of the model:
\* a rate-limit error, a timeout with a status code, two other failures.
RunErrors ==
    { [status_code |-> 429,      msg |-> {"Rate limit reached"}],
      [status_code |-> 429,      msg |-> {"Request Timeout"}],
      [status_code |-> NoStatus, msg |-> {"invalid json"}],
      [status_code |-> 400,      msg |-> {"content_filter"}] }

\* The condition of the `if` at lines 234-242: the failure is retried.
IsTransient(e) ==
    \/ Contains(Lower(e.msg), "rate limit reached")
    \/ (e.status_code # NoStatus /\ e.status_code \in {429, 503, 500})
    \/ Contains(Lower(e.msg), "timeout")
    \/ Contains(Lower(e.msg), "timed out")
    \/ Contains(Lower(e.msg), "read timed out")
    \/ Contains(e.msg, "overload_zh")
    \/ Contains(Lower(e.msg), "relay error")

\* IsTimeout that looks for one phrase only.
IsTimedOutOnly(error_str) == Contains(error_str, "timed out")

\* The condition of the `if` at line 252, on the lowered message.
IsTimeout(error_str) ==
    Contains(error_str, "timeout") \/ Contains(error_str, "timed out")

\* RetryDecision that never gives up.
RetryEverything(e) ==
    IF Contains(Lower(e.msg), "timeout") \/ Contains(Lower(e.msg), "timed out")
    THEN "retry_now" ELSE "retry_after"

\* Lines 234-316, the branch taken for the exception e: retry at once
\* (timeout), retry after a wait, or return an error result.
RetryDecision(e) ==
    IF IsTransient(e)
    THEN IF IsTimeout(Lower(e.msg)) THEN "retry_now" ELSE "retry_after"
    ELSE "give_up"

\* GivesUp with a cap of RETRY_LIMIT on the retries.
GivesUpAtLimit(e, retry_count) ==
    RetryDecision(e) = "give_up" \/ retry_count >= RETRY_LIMIT

\* The `else` at line 291 is taken: the failure ends the job.  retry_count
\* (lines 199, 243) is counted and never compared to anything.
GivesUp(e, retry_count) == RetryDecision(e) = "give_up"

\* The condition of the `if` at line 295, on the message as raised.
IsContentFilter(msg) ==
    Contains(msg, "content_filter") \/ Contains(msg, "content management policy")


\* ------------------------------------------------------ retry policy ----
\* DynamicDelay with the flat default one count late.
DynamicDelayLateDefault(count) ==
    IF count <= 7
    THEN IF count = 1 THEN 5
         ELSE IF count = 2 THEN 10
         ELSE IF count = 3 THEN 15
         ELSE IF count = 4 THEN 20
         ELSE IF count = 5 THEN 35
         ELSE 45
    ELSE RETRY_DELAY

\* Lines 259-274: the wait, in seconds, for the active count observed.
DynamicDelay(count) ==
    IF count <= 6
    THEN IF count = 1 THEN 5
         ELSE IF count = 2 THEN 10
         ELSE IF count = 3 THEN 15
         ELSE IF count = 4 THEN 20
         ELSE IF count = 5 THEN 35
         ELSE 45
    ELSE RETRY_DELAY

\* --------------------------------------------------------- job source ----
\* The order in which the catalogue lists its entries: not the sorted one.
Catalogues == { [i \in 1..NumJobs |-> NumJobs + 1 - i] }

\* bfcl_eval.utils.sort_key: a deterministic key over the job identifier.
sort_key(id) == id

\* Python's sorted(seq, key=sort_key): stable, ascending.
InsertSorted(x, s) ==
    LET before == SelectSeq(s, LAMBDA y : sort_key(y) <= sort_key(x))
        after  == SelectSeq(s, LAMBDA y : sort_key(y) > sort_key(x))
    IN  before \o <<x>> \o after

RECURSIVE Sorted(_)
Sorted(s) ==
    IF s = <<>> THEN <<>>
    ELSE InsertSorted(s[Len(s)], Sorted(SubSeq(s, 1, Len(s) - 1)))

\* test_cases_to_generate without the filter on existing ids.
test_cases_unfiltered(entries, existing) == entries

\* Lines 144-148: the entries without a persisted result, in catalogue order.
test_cases_to_generate(entries, existing) ==
    SelectSeq(entries, LAMBDA id : id \notin existing)

\* collect_test_cases without the sort.
collect_unsorted(entries, existing) == test_cases_to_generate(entries, existing)

\* collect_test_cases' return value.
collect_test_cases(entries, existing) ==
    Sorted(test_cases_to_generate(entries, existing))

\* ------------------------------------------------------- job content ----
\* bfcl_eval.utils.is_multi_turn: the last entry of the catalogue is a
\* multi-turn one, of the category that holds a function out.
is_multi_turn(id) == id = NumJobs

\* load_file of the function docs of the entry's involved class: two docs.
func_doc == << [kind |-> "doc", name |-> "f"], [kind |-> "doc", name |-> "g"] >>

\* An entry as get_involved_test_entries loads it: a multi-turn entry has no
\* "function" yet, and its "missed_function" lists, for its one turn, the
\* name of the function held out; the entries of other categories have none.
LoadedEntry(id) ==
    IF is_multi_turn(id)
    THEN [function |-> <<>>, has_missed_function |-> TRUE,
          missed_function |-> << [kind |-> "name", name |-> "g"] >>]
    ELSE [function |-> <<>>, has_missed_function |-> FALSE,
          missed_function |-> <<>>]

\* Line 183: func_doc["name"] == missed_func_name; a str never equals a dict.
NameEquals(doc, missed_func_name) ==
    missed_func_name.kind = "name" /\ doc.name = missed_func_name.name

\* s without its i-th element: list.pop(i)
Pop(s, i) == SubSeq(s, 1, i - 1) \o SubSeq(s, i + 1, Len(s))

\* Lines 180-188 for one turn: every item of the turn's list whose name a doc
\* of `function` has moves that doc from `function` to the turn's new list.
RECURSIVE HoldOut(_, _, _)
HoldOut(missed_func_names, function, missed) ==
    IF missed_func_names = <<>>
    THEN [function |-> function, missed_function |-> missed]
    ELSE LET name == Head(missed_func_names)
             hits == { i \in 1..Len(function) : NameEquals(function[i], name) }
         IN  IF hits = {}
             THEN HoldOut(Tail(missed_func_names), function, missed)
             ELSE LET i == CHOOSE h \in hits : \A k \in hits : h <= k
                  IN  HoldOut(Tail(missed_func_names), Pop(function, i),
                              Append(missed, function[i]))

\* Lines 164-188: the body of process_multi_turn_test_case's loop for the
\* entry dict e, rewritten in place.
ProcessEntry(id, e) ==
    IF ~is_multi_turn(id) THEN e
    ELSE IF e.has_missed_function
         THEN LET held == HoldOut(e.missed_function, func_doc, <<>>)
              IN  [function |-> held.function, has_missed_function |-> TRUE,
                   missed_function |-> held.missed_function]
         ELSE [e EXCEPT !.function = func_doc]

\* -------------------------------------------------------------- state ----
VARIABLES
    all_test_entries_involved, \* main: the catalogue, a sequence of ids
    entry,                     \* per id: "function" and "missed_function" of the catalogue's entry dict
    existing_ids,              \* ids found in the model's result files
    test_cases_total,          \* collect_test_cases' result
    main_pc,                   \* position of the main thread
    next_submit,               \* index of the submission loop in test_cases_total
    futures,                   \* the list `futures`, as job ids
    yielded,                   \* futures as_completed has handed out
    cur_future,                \* the future of the current loop body (0: none)
    cur_result,                \* `result` of the current loop body
    write_calls,               \* per job: calls of handler.write
    write_failed,              \* a handler.write call has raised
    exit_status,               \* status the process exits with (-1: none yet)
    pbar_n,                    \* pbar.n, the completed counter
    error_counts,              \* error_counts: rate_limit, content_filter
    stall_event,               \* threading.Event stall_event
    wd_pc,                     \* position of the watchdog thread
    display_pc,                \* position of the display thread
    last_poke_time,            \* stall_watchdog.last_poke_time (-1: no attribute)
    poke_count,                \* stall_watchdog.poke_count
    pc,                        \* per job: position of its future / worker
    calls,                     \* per job: invocations of handler.inference
    rate_limit_count,          \* per job: local rate_limit_count
    exc,                       \* per job: the exception caught last (e)
    active_count,              \* per job: local active_count (-1: unassigned)
    dynamic_delay,             \* per job: local dynamic_delay (-1: unassigned)
    elapsed2,                  \* per job: local elapsed, in half seconds
    test_case,                 \* per job: internal keys on the test_case dict
    future_result,             \* per job: the dict the worker returned
    since_completion2,         \* time.time() - last_completion_time[0], in half seconds
    wd_timer,                  \* half seconds left of the watchdog's sleep
    quiet2,                    \* history: half seconds the watchdog has run with 1..8 active jobs and no completion
    signaled,                  \* history: the idle seconds poked for since the last completion
    results_json,              \* stochastic runner, per run: the run directory's results.json
    score_files,               \* per run: categories whose score file exists
    result_files,              \* per run: categories whose result file exists with content
    runner_pc,                 \* position of the stochastic runner's main
    run_num,                   \* run_num of main's loop over the runs
    completed_runs,            \* completed_runs of main
    generated,                 \* history: runs whose `generate` subprocess was started
    evaluated,                 \* history: runs whose `evaluate` subprocess was started
    skipped                    \* history: runs main skipped, or run_bfcl_test returned True for with no subprocess started

runner_vars == << results_json, score_files, result_files, runner_pc, run_num,
                  completed_runs, generated, evaluated, skipped >>

generate_vars == << all_test_entries_involved, entry, existing_ids, test_cases_total, main_pc,
           next_submit, futures, yielded, cur_future, cur_result, write_calls,
           write_failed, exit_status, pbar_n, error_counts, stall_event, wd_pc,
           display_pc, last_poke_time, poke_count, pc, calls, rate_limit_count, exc,
           active_count, dynamic_delay, elapsed2, test_case, future_result,
           since_completion2, wd_timer, quiet2, signaled >>

vars == << generate_vars, runner_vars >>

main_vars == << all_test_entries_involved, runner_vars, entry, existing_ids, test_cases_total,
                main_pc, next_submit, futures, yielded, cur_future, cur_result,
                write_calls, write_failed, exit_status, pbar_n >>
watchdog_vars == << wd_pc, last_poke_time, poke_count >>
clock_vars == << since_completion2, wd_timer, quiet2, signaled >>
local_vars == << rate_limit_count, exc, active_count, dynamic_delay,
                 elapsed2 >>

\* No exception caught yet.
NoException == [status_code |-> NoStatus, msg |-> {}]

\* The placeholder of a result slot nothing was stored in.
NoResult == [id |-> 0]

\* Future.done()
done(j) == pc[j] \in {"done", "raised"}

\* The job's worker holds a pool thread.
Running(j) == pc[j] \in {"infer", "wait"}

\* Lines 386-387: sum(1 for f in futures if not f.done())
get_active_count ==
    Cardinality({ i \in 1..Len(futures) : ~done(futures[i]) })

\* Lines 203-206
get_active_test_count(j) ==
    IF "_get_active_count" \in test_case[j]
    THEN get_active_count
    ELSE DEFAULT_ACTIVE_COUNT

RECURSIVE SumOver(_, _)
SumOver(f, S) ==
    IF S = {} THEN 0
    ELSE LET x == CHOOSE y \in S : TRUE IN f[x] + SumOver(f, S \ {x})

\* Transient failures raised so far in the run.
TransientSoFar == SumOver(rate_limit_count, Ids)

\* Lines 286-287: elapsed after one more pass of the wait loop that found the
\* stall signal clear; past MaxPolledSlices passes, after all the passes left.
SliceEndUpTo(e2, delay, polled) ==
    IF e2 < polled THEN e2 + 1 ELSE 2 * delay

SliceEnd(e2, delay) == SliceEndUpTo(e2, delay, MaxPolledSlices)

\* A number of passes no wait reaches: every pass of the wait loop is a step.
AllSlices == 2 * RETRY_DELAY

\* stall_event.is_set() that never sees the signal.
is_set_never == FALSE

\* Line 280: stall_event.is_set()
is_set == stall_event

\* The process has not exited: its threads still run.
Alive == main_pc # "exited"

\* The generator's state when main calls collect_test_cases, but for the
\* catalogue's order and the result files.
InitGenerate ==
    /\ entry = [j \in Ids |-> LoadedEntry(j)]
    /\ test_cases_total = <<>>
    /\ main_pc = "collect"
    /\ next_submit = 1
    /\ futures = <<>>
    /\ yielded = {}
    /\ cur_future = 0
    /\ cur_result = NoResult
    /\ write_calls = [j \in Ids |-> 0]
    /\ write_failed = FALSE
    /\ exit_status = -1
    /\ pbar_n = 0
    /\ error_counts = [rate_limit |-> 0, content_filter |-> 0]
    /\ stall_event = FALSE
    /\ wd_pc = "off"
    /\ display_pc = "off"
    /\ last_poke_time = -1
    /\ poke_count = 0
    /\ pc = [j \in Ids |-> "new"]
    /\ calls = [j \in Ids |-> 0]
    /\ rate_limit_count = [j \in Ids |-> 0]
    /\ exc = [j \in Ids |-> NoException]
    /\ active_count = [j \in Ids |-> -1]
    /\ dynamic_delay = [j \in Ids |-> -1]
    /\ elapsed2 = [j \in Ids |-> 0]
    /\ test_case = [j \in Ids |-> {}]
    /\ future_result = [j \in Ids |-> NoResult]
    /\ since_completion2 = 0
    /\ wd_timer = 0
    /\ quiet2 = 0
    /\ signaled = {}

\* ---------------------------------------------- stochastic runner ----
\* fan_approach_stochastic_test.py line 472: ALL_TEST_CATEGORIES, two of its
\* five categories.
ALL_TEST_CATEGORIES == {"simple", "irrelevance"}

\* range(1, NUM_RUNS + 1)
Runs == 1..NUM_RUNS

\* results.json of a run directory: absent; present but not JSON; or JSON
\* whose "results" lists these categories.
NoResultsJson == [exists |-> FALSE, readable |-> FALSE, results |-> {}]

ResultsJsonFiles ==
    {NoResultsJson}
    \cup {[exists |-> TRUE, readable |-> FALSE, results |-> {}]}
    \cup {[exists |-> TRUE, readable |-> TRUE, results |-> S] :
            S \in SUBSET ALL_TEST_CATEGORIES}

\* The stochastic runner is not the program run: no run directory, its main
\* not started.
RunnerOff ==
    /\ results_json = [r \in Runs |-> NoResultsJson]
    /\ score_files = [r \in Runs |-> {}]
    /\ result_files = [r \in Runs |-> {}]
    /\ runner_pc = "off"
    /\ run_num = 0
    /\ completed_runs = {}
    /\ generated = {}
    /\ evaluated = {}
    /\ skipped = {}

\* The state when main calls collect_test_cases, but for the catalogue's
\* order and the result files; the stochastic runner is not in use.
InitLoaded ==
    /\ RunnerOff
    /\ InitGenerate

\* The same with the catalogue in the order of Catalogues.
InitRun == all_test_entries_involved \in Catalogues /\ InitLoaded

\* The result files of a resumed run: every entry but MaxPending of them is
\* persisted, and any of those may be.
Init ==
    /\ InitRun
    /\ existing_ids \in { E \in SUBSET Ids : Ids \ (1..MaxPending) \subseteq E }


\* ----------------------------------------------------------- results ----
\* Lines 318-329: result_to_write of a successful job; the metadata the
\* handler returns is the mapping {"latency": 1}.
result_to_write(j, count) ==
    IF count > 0
    THEN [id |-> j, result |-> [kind |-> "payload", msg |-> {}],
          latency |-> 1, _rate_limit_count |-> count]
    ELSE [id |-> j, result |-> [kind |-> "payload", msg |-> {}],
          latency |-> 1]

\* Lines 311-316: the dict returned for a failure that is not retried.
error_result(j, e) ==
    [id |-> j, result |-> [kind |-> "error", msg |-> e.msg],
     traceback |-> "traceback",
     _error_type |-> IF IsContentFilter(e.msg) THEN "content_filter" ELSE "None"]

\* del d[k] for every k of `keys` that d has.
DelKeys(d, keys) == [k \in (DOMAIN d) \ keys |-> d[k]]

\* Lines 549-559: the internal fields removed before the write.
InternalFields ==
    {"_rate_limit_count", "_increment_rate_limit", "_get_active_count",
     "_stall_event", "_processing_start_time"}

\* Stripped that removes the error tag only.
StrippedErrorTypeOnly(result) == DelKeys(result, {"_error_type"})

Stripped(result) == DelKeys(result, {"_error_type"} \cup InternalFields)

\* Lines 456-458: the handles the submission loop puts on the job.
CallbackHandles == {"_increment_rate_limit", "_get_active_count", "_stall_event"}

\* Truthy if an Event object were true only while it is set.
TruthyWhenSet(handle) == handle # "_stall_event" \/ stall_event

\* Lines 218-223: `if stall_event:`, `if increment_rate_limit:`, `if
\* get_active_count:` on what test_case.pop(key, None) returned: None for a
\* key that was not on the job; else the threading.Event or the function
\* generate_results put there, objects without __bool__ or __len__, which
\* Python takes as true.
Truthy(handle) == handle \in CallbackHandles

\* Lines 210-224: the keys on the job when handler.inference is called: the
\* handles are popped, the job is deep-copied (plain JSON data and numbers
\* are left), and each popped handle that is true is put back.
TryBlockKeys(keys) ==
    LET popped == keys \cap CallbackHandles
        copied == keys \ CallbackHandles
    IN  copied \cup { handle \in popped : Truthy(handle) }

\* ------------------------------------------------------- main thread ----
\* The result loop going on after an exception.
ContinueLoop == "as_completed"

\* The result loop ending after the first future.
SomeHandedOut == yielded # {}

\* Lines 580-586: where the main thread goes when the body of the result
\* loop raises: sys.exit(1).
AfterLoopException == "aborting"

\* Line 525: as_completed(futures) is exhausted, every future was handed out.
AllHandedOut == yielded = { futures[i] : i \in 1..Len(futures) }

\* main, lines 632-646: collect_test_cases, then generate_results up to the
\* start of the watchdog and display threads (lines 332-453) when there is
\* work.
CollectTestCases ==
    /\ main_pc = "collect"
    /\ test_cases_total' =
           collect_test_cases(all_test_entries_involved, existing_ids)
    /\ entry' = [j \in Ids |->
                   IF j \in existing_ids THEN entry[j]
                   ELSE ProcessEntry(j, entry[j])]
    /\ IF Len(test_cases_total') = 0
       THEN /\ main_pc' = "nothing_to_do"
            /\ UNCHANGED << wd_pc, wd_timer, display_pc >>
       ELSE /\ main_pc' = "submit"
            /\ wd_pc' = "sleep" /\ wd_timer' = 2
            /\ display_pc' = "sleep"
    /\ UNCHANGED << since_completion2, quiet2, signaled,
                    all_test_entries_involved, runner_vars, existing_ids, next_submit,
                    futures, yielded, cur_future, cur_result, write_calls,
                    write_failed, exit_status, pbar_n, error_counts,
                    stall_event, last_poke_time, poke_count, pc, calls,
                    local_vars, test_case, future_result >>

\* Lines 455-465: the handles are put on the job and executor.submit queues it.
Submit ==
    /\ main_pc = "submit"
    /\ LET j == test_cases_total[next_submit] IN
         /\ test_case' = [test_case EXCEPT ![j] = @ \cup CallbackHandles]
         /\ pc' = [pc EXCEPT ![j] = "queued"]
    /\ main_pc' = "append"
    /\ UNCHANGED << clock_vars, entry, all_test_entries_involved, runner_vars, existing_ids, test_cases_total,
                    next_submit, futures, yielded, cur_future, cur_result,
                    write_calls, write_failed, exit_status, pbar_n,
                    error_counts, stall_event, watchdog_vars, display_pc, calls,
                    local_vars, future_result >>

\* Lines 466-469: futures.append(future) and the maps; the loop goes on.
AppendFuture ==
    /\ main_pc = "append"
    /\ futures' = Append(futures, test_cases_total[next_submit])
    /\ next_submit' = next_submit + 1
    /\ main_pc' = IF next_submit = Len(test_cases_total)
                  THEN "as_completed" ELSE "submit"
    /\ UNCHANGED << clock_vars, entry, all_test_entries_involved, runner_vars, existing_ids, test_cases_total,
                    yielded, cur_future, cur_result, write_calls, write_failed,
                    exit_status, pbar_n, error_counts, stall_event,
                    watchdog_vars, display_pc, pc, calls, local_vars, test_case,
                    future_result >>

\* AtLoopHead of a loop that takes the next future during the write.
AtLoopHeadOrWriting == main_pc \in {"as_completed", "write"}

\* Line 525: the main thread is at the head of the result loop; the body run
\* for the previous future, handler.write included, has ended.
AtLoopHead == main_pc = "as_completed"

\* Lines 525-559: as_completed hands out a finished future; future.result()
\* re-raises what the worker raised (then lines 580-586: sys.exit(1), which
\* unwinds into ThreadPoolExecutor.__exit__), else the loop body runs up to
\* the call of handler.write.
AsCompletedNext(j) ==
    /\ AtLoopHead
    /\ \E i \in 1..Len(futures) : futures[i] = j
    /\ j \notin yielded
    /\ done(j)
    /\ yielded' = yielded \cup {j}
    /\ IF pc[j] = "raised"
       THEN /\ main_pc' = AfterLoopException
            /\ exit_status' = 1
            /\ UNCHANGED << cur_future, cur_result, stall_event, error_counts,
                            since_completion2, quiet2, signaled >>
       ELSE /\ main_pc' = "write"
            /\ cur_future' = j
            /\ stall_event' = FALSE
            /\ error_counts' =
                 IF /\ "_error_type" \in DOMAIN future_result[j]
                    /\ future_result[j]["_error_type"] = "content_filter"
                 THEN [error_counts EXCEPT !.content_filter = @ + 1]
                 ELSE error_counts
            /\ cur_result' = Stripped(future_result[j])
            /\ exit_status' = exit_status
            /\ since_completion2' = 0
            /\ quiet2' = 0
            /\ signaled' = {}
    /\ UNCHANGED << wd_timer, entry, all_test_entries_involved, runner_vars, existing_ids, test_cases_total,
                    next_submit, futures, write_calls, write_failed, pbar_n,
                    watchdog_vars, display_pc, pc, calls, local_vars, test_case,
                    future_result >>

\* Lines 561-579: handler.write returns; pbar.update().
WriteReturns ==
    /\ main_pc = "write"
    /\ write_calls' = [write_calls EXCEPT ![cur_future] = @ + 1]
    /\ pbar_n' = pbar_n + 1
    /\ main_pc' = "as_completed"
    /\ UNCHANGED << clock_vars, entry, all_test_entries_involved, runner_vars, existing_ids, test_cases_total,
                    next_submit, futures, yielded, cur_future, cur_result,
                    write_failed, exit_status, error_counts, stall_event,
                    watchdog_vars, display_pc, pc, calls, local_vars, test_case,
                    future_result >>

\* Lines 561-563 and 580-586: handler.write raises; sys.exit(1).
WriteRaises ==
    /\ main_pc = "write"
    /\ write_calls' = [write_calls EXCEPT ![cur_future] = @ + 1]
    /\ write_failed' = TRUE
    /\ exit_status' = 1
    /\ main_pc' = AfterLoopException
    /\ UNCHANGED << clock_vars, entry, all_test_entries_involved, runner_vars, existing_ids, test_cases_total,
                    next_submit, futures, yielded, cur_future, cur_result,
                    pbar_n, error_counts, stall_event, watchdog_vars, display_pc, pc,
                    calls, local_vars, test_case, future_result >>

\* Lines 588-590 and the ends of the two `with` blocks: every future has
\* been handed out, generate_results returns.
GenerateResultsReturns ==
    /\ main_pc = "as_completed"
    /\ AllHandedOut
    /\ main_pc' = "returned"
    /\ UNCHANGED << clock_vars, entry, all_test_entries_involved, runner_vars, existing_ids, test_cases_total,
                    next_submit, futures, yielded, cur_future, cur_result,
                    write_calls, write_failed, exit_status, pbar_n,
                    error_counts, stall_event, watchdog_vars, display_pc, pc, calls,
                    local_vars, test_case, future_result >>

\* main returns after the last model: the process exits with status 0.
ProcessEnds ==
    /\ main_pc \in {"returned", "nothing_to_do"}
    /\ main_pc' = "exited"
    /\ exit_status' = 0
    /\ UNCHANGED << clock_vars, entry, all_test_entries_involved, runner_vars, existing_ids, test_cases_total,
                    next_submit, futures, yielded, cur_future, cur_result,
                    write_calls, write_failed, pbar_n, error_counts,
                    stall_event, watchdog_vars, display_pc, pc, calls, local_vars,
                    test_case, future_result >>

\* Line 356: SystemExit leaves the `with ThreadPoolExecutor` block, whose
\* __exit__ is shutdown(wait=True): it returns when the workers have run
\* every queued job to its end.  Then the process exits with the status
\* given to sys.exit.
AbortExits ==
    /\ main_pc = "aborting"
    /\ \A i \in 1..Len(futures) : done(futures[i])
    /\ main_pc' = "exited"
    /\ UNCHANGED << clock_vars, entry, all_test_entries_involved, runner_vars, existing_ids, test_cases_total,
                    next_submit, futures, yielded, cur_future, cur_result,
                    write_calls, write_failed, exit_status, pbar_n,
                    error_counts, stall_event, watchdog_vars, display_pc, pc, calls,
                    local_vars, test_case, future_result >>


\* ----------------------------------------------------------- workers ----
\* The pool's queue is first in, first out: the next job a free worker takes
\* is the earliest submitted one that has not started.
HeadOfQueue(j) ==
    \E i \in 1..Len(test_cases_total) :
        /\ test_cases_total[i] = j
        /\ \A k \in 1..(i - 1) : pc[test_cases_total[k]] # "queued"

\* WorkerFree of a pool without a size.
WorkerAlwaysFree == TRUE

\* A pool thread is free to take a job (max_workers=args.num_threads).
WorkerFree == Cardinality({ k \in Ids : Running(k) }) < NumThreads

\* Lines 192-228: a worker takes the job; the assertion on the job's
\* "function" field (a list on a multi-turn entry: line 168); first pass through the try block up to the call of
\* handler.inference (the handles are popped for the deepcopy and restored).
StartJob(j) ==
    /\ Alive
    /\ pc[j] = "queued"
    /\ HeadOfQueue(j)
    /\ WorkerFree
    /\ rate_limit_count' = [rate_limit_count EXCEPT ![j] = 0]
    /\ \E function_is_list \in IF is_multi_turn(j) THEN {TRUE} ELSE BOOLEAN :
         IF function_is_list
         THEN /\ pc' = [pc EXCEPT ![j] = "infer"]
              /\ calls' = [calls EXCEPT ![j] = @ + 1]
              /\ test_case' = [test_case EXCEPT
                                 ![j] = TryBlockKeys(@ \cup {"_processing_start_time",
                                                             "_rate_limit_count"})]
         ELSE /\ pc' = [pc EXCEPT ![j] = "raised"]
              /\ calls' = calls
              /\ test_case' = [test_case EXCEPT
                                 ![j] = @ \cup {"_processing_start_time",
                                                "_rate_limit_count"}]
    /\ UNCHANGED << main_vars, clock_vars, error_counts, stall_event, watchdog_vars, display_pc,
                    exc, active_count, dynamic_delay, elapsed2,
                    future_result >>

\* Lines 226-229 and 318-329: handler.inference returns; the result dict is
\* assembled and returned.
InferenceReturns(j) ==
    /\ Alive
    /\ pc[j] = "infer"
    /\ pc' = [pc EXCEPT ![j] = "done"]
    /\ future_result' = [future_result EXCEPT
                           ![j] = result_to_write(j, rate_limit_count[j])]
    /\ UNCHANGED << main_vars, clock_vars, error_counts, stall_event, watchdog_vars, display_pc, calls,
                    local_vars, test_case >>

\* increment_rate_limit whose update is lost when the counter is not 0.
increment_lost_update(counts) ==
    [counts EXCEPT !.rate_limit = IF @ = 0 THEN 1 ELSE @]

\* Lines 375-377: error_counts["rate_limit"] += 1 under error_lock, the
\* only assignment to that key: one step for the other workers.
increment_rate_limit(counts) == [counts EXCEPT !.rate_limit = @ + 1]

\* Lines 230-275 and 291-316: handler.inference raises e.  A transient
\* failure is counted and either retried at once (timeout: `continue`, the
\* next call of handler.inference starts) or followed by a wait whose length
\* comes from the active count; any other failure returns an error dict.
\* `budget` bounds the transient failures the endpoint raises in the run.
InferenceRaisesUpTo(j, e, budget) ==
    /\ Alive
    /\ pc[j] = "infer"
    /\ exc' = [exc EXCEPT ![j] = e]
    /\ IF ~GivesUp(e, rate_limit_count[j])
       THEN /\ TransientSoFar < budget
            /\ rate_limit_count' = [rate_limit_count EXCEPT ![j] = @ + 1]
            /\ test_case' = [test_case EXCEPT
                               ![j] = IF RetryDecision(e) = "retry_now"
                                      THEN TryBlockKeys(@ \cup {"_rate_limit_count",
                                                                "_last_retry_time"})
                                      ELSE @ \cup {"_rate_limit_count",
                                                   "_last_retry_time"}]
            /\ error_counts' =
                 IF "_increment_rate_limit" \in test_case[j]
                 THEN increment_rate_limit(error_counts)
                 ELSE error_counts
            /\ future_result' = future_result
            /\ IF RetryDecision(e) = "retry_now"
               THEN /\ pc' = pc
                    /\ calls' = [calls EXCEPT ![j] = @ + 1]
                    /\ UNCHANGED << active_count, dynamic_delay, elapsed2 >>
               ELSE /\ pc' = [pc EXCEPT ![j] = "wait"]
                    /\ calls' = calls
                    /\ active_count' =
                         [active_count EXCEPT ![j] = get_active_test_count(j)]
                    /\ dynamic_delay' =
                         [dynamic_delay EXCEPT
                            ![j] = DynamicDelay(get_active_test_count(j))]
                    /\ elapsed2' = [elapsed2 EXCEPT ![j] = 0]
       ELSE /\ pc' = [pc EXCEPT ![j] = "done"]
            /\ future_result' = [future_result EXCEPT ![j] = error_result(j, e)]
            /\ UNCHANGED << rate_limit_count, test_case, error_counts, calls,
                            active_count, dynamic_delay, elapsed2 >>
    /\ UNCHANGED << main_vars, clock_vars, stall_event, watchdog_vars, display_pc >>

InferenceRaises(j, e) == InferenceRaisesUpTo(j, e, MaxTransient)

\* WaitStepUpTo with the delay computed again, in every pass, from the count
\* of that moment.
WaitStepResampled(j, polled) ==
    /\ Alive
    /\ pc[j] = "wait"
    /\ IF "_stall_event" \in test_case[j]
       THEN IF is_set
            THEN /\ test_case' = [test_case EXCEPT
                                    ![j] = TryBlockKeys(@ \cup {"_last_poke_time"})]
                 /\ elapsed2' = elapsed2
                 /\ pc' = [pc EXCEPT ![j] = "infer"]
                 /\ calls' = [calls EXCEPT ![j] = @ + 1]
            ELSE /\ elapsed2' = [elapsed2 EXCEPT
                                  ![j] = SliceEndUpTo(@, dynamic_delay[j], polled)]
                 /\ IF elapsed2'[j] < 2 * DynamicDelay(get_active_count)
                    THEN pc' = pc /\ calls' = calls /\ test_case' = test_case
                    ELSE /\ pc' = [pc EXCEPT ![j] = "infer"]
                         /\ calls' = [calls EXCEPT ![j] = @ + 1]
                         /\ test_case' = [test_case EXCEPT ![j] = TryBlockKeys(@)]
       ELSE /\ test_case' = [test_case EXCEPT ![j] = TryBlockKeys(@)]
            /\ elapsed2' = elapsed2
            /\ pc' = [pc EXCEPT ![j] = "infer"]
            /\ calls' = [calls EXCEPT ![j] = @ + 1]
    /\ UNCHANGED << main_vars, clock_vars, error_counts, stall_event, watchdog_vars, display_pc,
                    rate_limit_count, exc, active_count, dynamic_delay,
                    future_result >>

\* Lines 276-290: one pass of the wait loop.  With the stall event on the
\* job: the event is polled, a set event ends the wait, else one slice of
\* 0.5 s is slept (SliceEnd); the loop ends when elapsed reaches the delay.
\* Without it:
\* one sleep of the whole delay.  The end of the wait is the next pass
\* through the try block: handler.inference is called again.
\* `polled` is the number of passes taken one by one.
WaitStepUpTo(j, polled) ==
    /\ Alive
    /\ pc[j] = "wait"
    /\ IF "_stall_event" \in test_case[j]
       THEN IF is_set
            THEN /\ test_case' = [test_case EXCEPT
                                    ![j] = TryBlockKeys(@ \cup {"_last_poke_time"})]
                 /\ elapsed2' = elapsed2
                 /\ pc' = [pc EXCEPT ![j] = "infer"]
                 /\ calls' = [calls EXCEPT ![j] = @ + 1]
            ELSE /\ elapsed2' = [elapsed2 EXCEPT
                                  ![j] = SliceEndUpTo(@, dynamic_delay[j], polled)]
                 /\ IF elapsed2'[j] < 2 * dynamic_delay[j]
                    THEN pc' = pc /\ calls' = calls /\ test_case' = test_case
                    ELSE /\ pc' = [pc EXCEPT ![j] = "infer"]
                         /\ calls' = [calls EXCEPT ![j] = @ + 1]
                         /\ test_case' = [test_case EXCEPT ![j] = TryBlockKeys(@)]
       ELSE /\ test_case' = [test_case EXCEPT ![j] = TryBlockKeys(@)]
            /\ elapsed2' = elapsed2
            /\ pc' = [pc EXCEPT ![j] = "infer"]
            /\ calls' = [calls EXCEPT ![j] = @ + 1]
    /\ UNCHANGED << main_vars, clock_vars, error_counts, stall_event, watchdog_vars, display_pc,
                    rate_limit_count, exc, active_count, dynamic_delay,
                    future_result >>

WaitStep(j) == WaitStepUpTo(j, MaxPolledSlices)

\* ---------------------------------------------------------- watchdog ----
\* time.time() - last_completion_time[0] as the watchdog reads it, in half
\* seconds: 10.0 s, 10.5 s and 20.5 s.
IdleSamples == {20, 21, 41}

\* Lines 400-405: the watchdog pokes at this reading of the idle time.
PokeDue(idle2) ==
    /\ idle2 > 2 * STALL_IDLE_SECONDS
    /\ (idle2 \div 2) % STALL_POKE_PERIOD = 0
    /\ last_poke_time # idle2 \div 2

\* AfterPass without the break.
AfterPassNoBreak(count) == "sleep"

\* Lines 418-420: the loop exits when the count read in this pass is 0.
AfterPass(count) == IF count = 0 THEN "exited" ELSE "sleep"

\* PokeRange without the upper limit.
PokeRangeNoCap(count) == 1 <= count

\* Line 396: the watchdog only cares about the last 1 to 8 jobs.
PokeRange(count) == 1 <= count /\ count <= STALL_MAX_ACTIVE

\* Lines 391-420: one pass of the watchdog loop after its sleep of 1 s, up to
\* the sleep of 0.5 s that follows stall_event.set(), or to the break.
\* idle2 is its reading of time.time() - last_completion_time[0]; `budget`
\* bounds the pokes of the run.
WatchdogPass(idle2, budget) ==
    /\ Alive
    /\ wd_pc = "sleep"
    /\ LET count == get_active_count IN
         IF PokeRange(count)
         THEN IF PokeDue(idle2)
              THEN /\ poke_count < budget
                   /\ last_poke_time' = idle2 \div 2
                   /\ poke_count' = poke_count + 1
                   /\ stall_event' = TRUE
                   /\ wd_pc' = "pulse"
              ELSE UNCHANGED << last_poke_time, poke_count, stall_event, wd_pc >>
         ELSE /\ wd_pc' = AfterPass(count)
              /\ UNCHANGED << last_poke_time, poke_count, stall_event >>
    /\ UNCHANGED << main_vars, error_counts, pc, calls, local_vars, test_case,
                    future_result, display_pc >>

\* The pass at any of the readings of IdleSamples.
WatchdogCheck ==
    /\ \E idle2 \in IdleSamples : WatchdogPass(idle2, MaxPokes)
    /\ UNCHANGED clock_vars

\* ClearPulse without stall_event.clear().
ClearPulseKeepsSignal ==
    /\ Alive
    /\ wd_pc = "pulse"
    /\ wd_pc' = "sleep"
    /\ UNCHANGED << main_vars, error_counts, last_poke_time, poke_count, pc,
                    calls, local_vars, test_case, future_result, display_pc,
                    stall_event >>

\* Lines 415-420: the pulse ends, stall_event.clear(); the active count read
\* before the pulse was not 0, so the loop goes on.
ClearPulse ==
    /\ Alive
    /\ wd_pc = "pulse"
    /\ stall_event' = FALSE
    /\ wd_pc' = "sleep"
    /\ UNCHANGED << main_vars, error_counts, last_poke_time, poke_count, pc,
                    calls, local_vars, test_case, future_result, display_pc >>

WatchdogClear == ClearPulse /\ UNCHANGED clock_vars

\* ------------------------------------------------------ specification ----
Next ==
    \/ CollectTestCases
    \/ Submit
    \/ AppendFuture
    \/ \E j \in Ids : AsCompletedNext(j)
    \/ WriteReturns
    \/ WriteRaises
    \/ GenerateResultsReturns
    \/ ProcessEnds
    \/ AbortExits
    \/ \E j \in Ids : StartJob(j)
    \/ \E j \in Ids : InferenceReturns(j)
    \/ \E j \in Ids : \E e \in RunErrors : InferenceRaises(j, e)
    \/ \E j \in Ids : WaitStep(j)
    \/ WatchdogCheck
    \/ WatchdogClear

Spec == Init /\ [][Next]_vars


\* ------------------------------------------ one job, many retries ----
\* A resumed run with one pending job, whose endpoint fails transiently up
\* to MaxRetries times, with any of the exceptions of ErrorInputs.
RetryInit == InitRun /\ existing_ids = Ids \ {1}

RetryNext ==
    \/ CollectTestCases
    \/ Submit
    \/ AppendFuture
    \/ \E j \in Ids : AsCompletedNext(j)
    \/ WriteReturns
    \/ WriteRaises
    \/ GenerateResultsReturns
    \/ ProcessEnds
    \/ AbortExits
    \/ \E j \in Ids : StartJob(j)
    \/ \E j \in Ids : InferenceReturns(j)
    \/ \E j \in Ids : \E e \in ErrorInputs : InferenceRaisesUpTo(j, e, MaxRetries)
    \/ \E j \in Ids : WaitStep(j)
    \/ WatchdogCheck
    \/ WatchdogClear

SpecRetry == RetryInit /\ [][RetryNext]_vars

\* --------------------------------------- every pass of the wait loop ----
\* A resumed run with two pending jobs in which every pass of the wait loop
\* (a poll of the stall signal and a slice of 0.5 s) is a step of its own.
WaitInit == InitRun /\ existing_ids = Ids \ {1, 2}

WaitNext ==
    \/ CollectTestCases
    \/ Submit
    \/ AppendFuture
    \/ \E j \in Ids : AsCompletedNext(j)
    \/ WriteReturns
    \/ WriteRaises
    \/ GenerateResultsReturns
    \/ ProcessEnds
    \/ AbortExits
    \/ \E j \in Ids : StartJob(j)
    \/ \E j \in Ids : InferenceReturns(j)
    \/ \E j \in Ids : \E e \in RunErrors : InferenceRaisesUpTo(j, e, MaxWaiters)
    \/ \E j \in Ids : WaitStepUpTo(j, AllSlices)
    \/ WatchdogCheck
    \/ WatchdogClear

SpecWait == WaitInit /\ [][WaitNext]_vars

\* ------------------------------------------------ the watchdog in time ----
\* The watchdog thread is running (sleeping or in its pulse).
WatchdogRuns == wd_pc \in {"sleep", "pulse"}

\* The condition of line 396 on the in-flight count.
FewActive == PokeRange(get_active_count)

\* Half a second passes while generate_results runs: the clocks advance.  The
\* watchdog's sleeps (lines 392 and 415) end when their time is up.
Tick ==
    /\ Alive
    /\ main_pc \in {"submit", "append", "as_completed", "write"}
    /\ since_completion2 < MaxIdle2
    /\ WatchdogRuns => wd_timer > 0
    /\ since_completion2' = since_completion2 + 1
    /\ wd_timer' = IF WatchdogRuns THEN wd_timer - 1 ELSE wd_timer
    /\ quiet2' = IF WatchdogRuns /\ FewActive THEN quiet2 + 1 ELSE 0
    /\ UNCHANGED << main_vars, signaled, error_counts, stall_event,
                    watchdog_vars, display_pc, pc, calls, local_vars, test_case,
                    future_result >>

\* Lines 391-414 when the sleep of 1 s is over: the pass at the idle time
\* of the clock; then the pulse of 0.5 s, the exit, or the next sleep of 1 s.
TimedWatchdogCheck ==
    /\ wd_timer = 0
    /\ WatchdogPass(since_completion2, MaxClockPokes)
    /\ wd_timer' = IF wd_pc' = "pulse" THEN 1
                   ELSE IF wd_pc' = "exited" THEN 0 ELSE 2
    /\ signaled' = IF wd_pc' = "pulse"
                   THEN signaled \cup {since_completion2 \div 2}
                   ELSE signaled
    /\ quiet2' = IF FewActive THEN quiet2 ELSE 0
    /\ UNCHANGED since_completion2

\* Lines 415-420 when the pulse of 0.5 s is over; then the sleep of 1 s.
TimedWatchdogClear ==
    /\ wd_timer = 0
    /\ ClearPulse
    /\ wd_timer' = 2
    /\ UNCHANGED << since_completion2, quiet2, signaled >>

\* A resumed run with two pending jobs, or a fresh run of the whole
\* catalogue, whose endpoint does not fail.
ClockInit == InitRun /\ existing_ids \in {Ids \ {1, 2}, {}}

\* The step leaves at most MaxClockEnded futures done.
FewEnded == Cardinality({ k \in Ids : pc'[k] \in {"done", "raised"} }) <= MaxClockEnded

ClockNext ==
    \/ CollectTestCases
    \/ Submit
    \/ AppendFuture
    \/ \E j \in Ids : AsCompletedNext(j)
    \/ WriteReturns
    \/ WriteRaises
    \/ GenerateResultsReturns
    \/ ProcessEnds
    \/ AbortExits
    \/ \E j \in Ids : StartJob(j) /\ FewEnded
    \/ \E j \in Ids : InferenceReturns(j) /\ FewEnded
    \/ Tick
    \/ TimedWatchdogCheck
    \/ TimedWatchdogClear

SpecClock == ClockInit /\ [][ClockNext]_vars

\* ------------------------------------------- the delay table alone ----
\* The active counts the delay table is applied to.
CountInputs == (0..MaxCount) \cup {DEFAULT_ACTIVE_COUNT}

DelayInit == InitRun /\ existing_ids = {}

\* Lines 258-274 for the active count `count`.
ApplyDelay(j, count) ==
    /\ active_count' = [active_count EXCEPT ![j] = count]
    /\ dynamic_delay' = [dynamic_delay EXCEPT ![j] = DynamicDelay(count)]
    /\ UNCHANGED << main_vars, clock_vars, error_counts, stall_event, watchdog_vars, display_pc, pc,
                    calls, rate_limit_count, exc, elapsed2, test_case,
                    future_result >>

DelayNext == \E j \in 1..MaxPending : \E count \in CountInputs : ApplyDelay(j, count)

SpecDelay == DelayInit /\ [][DelayNext]_vars

\* ------------------------------------------------ one model after another ----
\* The result files of the next model: its directory holds results for every
\* entry but the first and the last of the catalogue, or but the last.
ModelResultFiles == { Ids \ {1, NumJobs}, Ids \ {NumJobs} }

\* main, lines 632-646: the loop goes on to the next model of args.model.
\* collect_test_cases is called with the same all_test_entries_involved, the
\* same entry dicts with what the last pass left on them; generate_results
\* will start with new futures, counters, stall event and watchdog thread
\* (the watchdog of the last call ends at its next pass: its futures are
\* done).
NextModel ==
    /\ main_pc \in {"returned", "nothing_to_do"}
    /\ main_pc' = "collect"
    /\ existing_ids' \in ModelResultFiles
    /\ test_cases_total' = <<>>
    /\ next_submit' = 1
    /\ futures' = <<>>
    /\ yielded' = {}
    /\ cur_future' = 0
    /\ cur_result' = NoResult
    /\ write_calls' = [j \in Ids |-> 0]
    /\ write_failed' = FALSE
    /\ exit_status' = -1
    /\ pbar_n' = 0
    /\ error_counts' = [rate_limit |-> 0, content_filter |-> 0]
    /\ stall_event' = FALSE
    /\ wd_pc' = "off"
    /\ display_pc' = "off"
    /\ last_poke_time' = -1
    /\ poke_count' = 0
    /\ pc' = [j \in Ids |-> "new"]
    /\ calls' = [j \in Ids |-> 0]
    /\ rate_limit_count' = [j \in Ids |-> 0]
    /\ exc' = [j \in Ids |-> NoException]
    /\ active_count' = [j \in Ids |-> -1]
    /\ dynamic_delay' = [j \in Ids |-> -1]
    /\ elapsed2' = [j \in Ids |-> 0]
    /\ future_result' = [j \in Ids |-> NoResult]
    /\ since_completion2' = 0
    /\ wd_timer' = 0
    /\ quiet2' = 0
    /\ signaled' = {}
    /\ UNCHANGED << all_test_entries_involved, runner_vars, entry, test_case >>

\* An invocation with several models; the first model's directory lacks the
\* results of the first entry and of the multi-turn entry.
ModelsInit == InitRun /\ existing_ids = Ids \ {1, NumJobs}

ModelsNext ==
    \/ CollectTestCases
    \/ Submit
    \/ AppendFuture
    \/ \E j \in Ids : AsCompletedNext(j)
    \/ WriteReturns
    \/ WriteRaises
    \/ GenerateResultsReturns
    \/ ProcessEnds
    \/ AbortExits
    \/ NextModel
    \/ \E j \in Ids : StartJob(j)
    \/ \E j \in Ids : InferenceReturns(j)
    \/ \E j \in Ids : \E e \in RunErrors : InferenceRaises(j, e)
    \/ \E j \in Ids : WaitStep(j)
    \/ WatchdogCheck
    \/ WatchdogClear

SpecModels == ModelsInit /\ [][ModelsNext]_vars

\* ------------------------------------------- the catalogue's order ----
\* Orders in which get_involved_test_entries may list the same entries:
\* ascending, descending, and a shuffle.
CatalogueOrders ==
    { [i \in 1..NumJobs |-> i],
      [i \in 1..NumJobs |-> NumJobs + 1 - i],
      [i \in 1..NumJobs |-> ((7 * i) % NumJobs) + 1] }

\* The entries without a persisted result, in two invocations.
OrderPending == { {1, 2, 3}, {2, 5, NumJobs} }

OrderInit ==
    /\ InitLoaded
    /\ all_test_entries_involved \in CatalogueOrders
    /\ existing_ids \in { Ids \ P : P \in OrderPending }

\* Runs in which the endpoint and handler.write do not fail.
OrderNext ==
    \/ CollectTestCases
    \/ Submit
    \/ AppendFuture
    \/ \E j \in Ids : AsCompletedNext(j)
    \/ WriteReturns
    \/ GenerateResultsReturns
    \/ ProcessEnds
    \/ \E j \in Ids : StartJob(j)
    \/ \E j \in Ids : InferenceReturns(j)

SpecOrder == OrderInit /\ [][OrderNext]_vars

\* ------------------------------------------------- the display thread ----
\* Lines 566-568 have run for a future of the list: the main thread has
\* popped it from test_id_map and deleted its start time.
SomePopped == \E i \in 1..Len(futures) : write_calls[futures[i]] >= 1

\* DisplayLeaves of a reporter that records its pass as a completion.
DisplayRecordsCompletion ==
    /\ since_completion2' = 0
    /\ UNCHANGED << main_vars, wd_timer, quiet2, signaled, error_counts,
                    stall_event, watchdog_vars, pc, calls, local_vars,
                    test_case, future_result >>

\* Lines 423-445 and 483-523 assign nothing but their own locals and the
\* bars of the terminal.
DisplayLeaves ==
    UNCHANGED << main_vars, clock_vars, error_counts, stall_event,
                 watchdog_vars, pc, calls, local_vars, test_case,
                 future_result >>

\* Lines 423-445: one pass of display_updater after its sleep of 1 s:
\* update_status_display (lines 483-523), the postfix of the progress bar,
\* and the exit when the count read in this pass is 0.  The lookups of lines
\* 488-490 race with the pops of lines 566-568 for a future that ended
\* after line 487 had read f.done(): the pass may raise KeyError, which ends
\* the thread.
DisplayPass ==
    /\ Alive
    /\ display_pc = "sleep"
    /\ LET active == get_active_count IN
         \/ display_pc' = IF active = 0 THEN "exited" ELSE "sleep"
         \/ SomePopped /\ display_pc' = "raised"
    /\ DisplayLeaves

\* A resumed run with two pending jobs, in time, with the display thread.
DisplayInit == InitRun /\ existing_ids = Ids \ {1, 2}

DisplayNext ==
    \/ CollectTestCases
    \/ Submit
    \/ AppendFuture
    \/ \E j \in Ids : AsCompletedNext(j)
    \/ WriteReturns
    \/ WriteRaises
    \/ GenerateResultsReturns
    \/ ProcessEnds
    \/ AbortExits
    \/ \E j \in Ids : StartJob(j)
    \/ \E j \in Ids : InferenceReturns(j)
    \/ \E j \in Ids : \E e \in RunErrors : InferenceRaises(j, e)
    \/ \E j \in Ids : WaitStep(j)
    \/ Tick /\ since_completion2' <= MaxDisplayIdle2
    \/ TimedWatchdogCheck
    \/ TimedWatchdogClear
    \/ DisplayPass

SpecDisplay == DisplayInit /\ [][DisplayNext]_vars

\* ----------------------------------------- three jobs, two workers ----
\* The endpoint's answers in the run: job 1 succeeds at once, job 2 fails
\* once with a rate-limit error and then succeeds, job 3 fails with an error
\* that is not transient.
RateLimitError == [status_code |-> 429, msg |-> {"Rate limit reached"}]
FatalError == [status_code |-> NoStatus, msg |-> {"invalid json"}]

ThreeJobsInit == InitRun /\ existing_ids = Ids \ {1, 2, 3}

\* Every entry's "function" is a list and handler.write does not fail.
ThreeJobsNext ==
    \/ CollectTestCases
    \/ Submit
    \/ AppendFuture
    \/ \E j \in Ids : AsCompletedNext(j)
    \/ WriteReturns
    \/ GenerateResultsReturns
    \/ ProcessEnds
    \/ \E j \in Ids : StartJob(j) /\ pc'[j] = "infer"
    \/ InferenceReturns(1)
    \/ InferenceRaisesUpTo(2, RateLimitError, 1)
    \/ InferenceReturns(2) /\ calls[2] = 2
    \/ InferenceRaisesUpTo(3, FatalError, 1)
    \/ \E j \in Ids : WaitStep(j)
    \/ WatchdogCheck
    \/ WatchdogClear

SpecThreeJobs == ThreeJobsInit /\ [][ThreeJobsNext]_vars

\* ------------------------------------- two jobs that fail repeatedly ----
\* A resumed run with two pending jobs whose calls fail transiently up to
\* MaxCounted times in all, in any split between the two workers.
CountInit == InitRun /\ existing_ids = Ids \ {1, 2}

CountNext ==
    \/ CollectTestCases
    \/ Submit
    \/ AppendFuture
    \/ \E j \in Ids : AsCompletedNext(j)
    \/ WriteReturns
    \/ WriteRaises
    \/ GenerateResultsReturns
    \/ ProcessEnds
    \/ AbortExits
    \/ \E j \in Ids : StartJob(j)
    \/ \E j \in Ids : InferenceReturns(j)
    \/ \E j \in Ids : \E e \in RunErrors : InferenceRaisesUpTo(j, e, MaxCounted)
    \/ \E j \in Ids : WaitStep(j)
    \/ WatchdogCheck
    \/ WatchdogClear

SpecCount == CountInit /\ [][CountNext]_vars

\* ------------------------------------------------- threads that run ----
\* The steps of the main thread.
MainThread ==
    \/ CollectTestCases
    \/ Submit
    \/ AppendFuture
    \/ \E j \in Ids : AsCompletedNext(j)
    \/ WriteReturns
    \/ WriteRaises
    \/ GenerateResultsReturns
    \/ ProcessEnds
    \/ AbortExits

\* What the scheduler guarantees: the main thread, a pool thread that can
\* take a job or is in its wait loop, and the watchdog thread keep running.
\* Nothing makes a call of handler.inference end: the endpoint may never
\* answer, or fail transiently again and again.
ThreadsRun ==
    /\ WF_vars(MainThread)
    /\ \A j \in Ids : WF_vars(StartJob(j))
    /\ \A j \in Ids : WF_vars(WaitStep(j))
    /\ WF_vars(WatchdogCheck)
    /\ WF_vars(WatchdogClear)

\* A resumed run with two pending jobs, under these guarantees.
LiveInit == InitRun /\ existing_ids = Ids \ {1, 2}

SpecLive == LiveInit /\ [][Next]_vars /\ ThreadsRun

\* ------------------------------------- the stochastic runner's main ----
\* fan_approach_stochastic_test.py lines 115-143: results.json exists, is
\* JSON and lists every category, and every category's score file exists.
check_run_complete(run, categories) ==
    /\ results_json[run].exists
    /\ results_json[run].readable
    /\ categories \subseteq results_json[run].results
    /\ categories \subseteq score_files[run]

\* Lines 145-161: some category's result file exists with content.
check_results_exist(run, categories) ==
    \E cat \in categories : cat \in result_files[run]

\* Lines 163-169
get_completed_runs(categories) ==
    { run \in Runs : check_run_complete(run, categories) }

\* Lines 302-330, with a run_dir: the categories whose score file exists
\* (score files with a summary line).
load_results(run, categories) == categories \cap score_files[run]

\* Lines 333-345: results.json is (re)written with these results.
save_run_results(run, results) ==
    [exists |-> TRUE, readable |-> TRUE, results |-> results]

\* Lines 505-519 of main: results.json is missing, unreadable or has empty
\* results.
needs_results(file) ==
    ~file.exists \/ ~file.readable \/ file.results = {}

\* What a subprocess that failed may have left of the files it writes.
LeftBy(before, categories) ==
    { S \in SUBSET categories : (before \cap categories) \subseteq S }

\* Lines 492-495 of main: completed_runs is computed before the loop over
\* the runs of the configuration.
GetCompletedRuns ==
    /\ runner_pc = "start"
    /\ completed_runs' = get_completed_runs(ALL_TEST_CATEGORIES)
    /\ run_num' = 1
    /\ runner_pc' = "runs"
    /\ UNCHANGED << generate_vars, results_json, score_files, result_files,
                    generated, evaluated, skipped >>

\* Lines 498-501 of main: a run of completed_runs is skipped.
SkipCompletedRun ==
    /\ runner_pc = "runs"
    /\ run_num \in Runs
    /\ run_num \in completed_runs
    /\ run_num' = run_num + 1
    /\ skipped' = skipped \cup {run_num}
    /\ UNCHANGED << generate_vars, results_json, score_files, result_files,
                    runner_pc, completed_runs, generated, evaluated >>

\* Lines 209-218 of run_bfcl_test: a run whose results.json exists, or that
\* is complete, returns True at once.
ReturnsAtOnce(run, categories) ==
    \/ results_json[run].exists
    \/ check_run_complete(run, categories)

\* Lines 504-526 of main after run_bfcl_test has returned True: results.json
\* is written from the score files when it is missing or has no results.
SaveIfNeeded(run, scores) ==
    results_json' =
        IF needs_results(results_json[run])
        THEN [results_json EXCEPT
                ![run] = save_run_results(run, ALL_TEST_CATEGORIES \cap scores)]
        ELSE results_json

\* Lines 498-526 of main with run_bfcl_test (lines 194-300) for a run not in
\* completed_runs.  prompt_ok is validate_prompt_file's answer;
\* generate_ok and evaluate_ok tell whether the subprocess returned 0
\* (subprocess.run(check=True) raises CalledProcessError otherwise and
\* run_bfcl_test returns False).  has_results_json is read after the early
\* return on results.json, with no write in between.
RunBfclTest ==
    /\ runner_pc = "runs"
    /\ run_num \in Runs
    /\ run_num \notin completed_runs
    /\ LET run == run_num
           has_results == check_results_exist(run, ALL_TEST_CATEGORIES)
           has_results_json == results_json[run].exists
       IN  IF ReturnsAtOnce(run, ALL_TEST_CATEGORIES)
           THEN /\ SaveIfNeeded(run, score_files[run])
                /\ skipped' = skipped \cup {run}
                /\ UNCHANGED << score_files, result_files, generated, evaluated >>
           ELSE \E prompt_ok, generate_ok, evaluate_ok \in BOOLEAN :
                  LET generates == prompt_ok /\ ~(has_results /\ has_results_json)
                      evaluates == prompt_ok /\ (generates => generate_ok)
                  IN  /\ skipped' = skipped
                      /\ generated' = IF generates THEN generated \cup {run}
                                                   ELSE generated
                      /\ evaluated' = IF evaluates THEN evaluated \cup {run}
                                                   ELSE evaluated
                      /\ IF generates
                         THEN \E S \in LeftBy(result_files[run], ALL_TEST_CATEGORIES) :
                                /\ generate_ok => S = ALL_TEST_CATEGORIES
                                /\ result_files' = [result_files EXCEPT ![run] = S]
                         ELSE result_files' = result_files
                      /\ IF evaluates
                         THEN \E S \in LeftBy(score_files[run], ALL_TEST_CATEGORIES) :
                                /\ evaluate_ok => S = ALL_TEST_CATEGORIES
                                /\ score_files' = [score_files EXCEPT ![run] = S]
                         ELSE score_files' = score_files
                      /\ IF evaluates /\ evaluate_ok
                         THEN SaveIfNeeded(run, score_files'[run])
                         ELSE results_json' = results_json
    /\ run_num' = run_num + 1
    /\ UNCHANGED << generate_vars, runner_pc, completed_runs >>

\* Lines 539-558 of main: the loop over the runs has ended, the
\* configuration's report is saved.
ConfigurationDone ==
    /\ runner_pc = "runs"
    /\ run_num = NUM_RUNS + 1
    /\ runner_pc' = "done"
    /\ UNCHANGED << generate_vars, results_json, score_files, result_files,
                    run_num, completed_runs, generated, evaluated, skipped >>

\* The runner started on a results directory in which each run directory is
\* in any state an interrupted or edited earlier invocation can have left; the
\* generator module is not run in this process.
RunnerInit ==
    /\ InitGenerate
    /\ all_test_entries_involved \in Catalogues
    /\ existing_ids = Ids
    /\ results_json \in [Runs -> ResultsJsonFiles]
    /\ score_files \in [Runs -> SUBSET ALL_TEST_CATEGORIES]
    /\ result_files \in [Runs -> {{}, ALL_TEST_CATEGORIES}]
    /\ runner_pc = "start"
    /\ run_num = 0
    /\ completed_runs = {}
    /\ generated = {}
    /\ evaluated = {}
    /\ skipped = {}

RunnerNext ==
    \/ GetCompletedRuns
    \/ SkipCompletedRun
    \/ RunBfclTest
    \/ ConfigurationDone

SpecRunner == RunnerInit /\ [][RunnerNext]_vars

\* ------------------------------------------------------------ claims ----
\* The jobs collect_test_cases returned.
Pending == { test_cases_total[i] : i \in 1..Len(test_cases_total) }

IsErrorResult(r) == "result" \in DOMAIN r /\ r["result"].kind = "error"

\* C1: while no handler.write call has failed, handler.write has been called
\* at most once per job, and when generate_results has returned it has been
\* called exactly once for every job of test_cases_total.
C1_ExactlyOneWrite ==
    ~write_failed =>
        /\ \A j \in Ids : write_calls[j] <= 1
        /\ main_pc = "returned" =>
             \A j \in Ids : write_calls[j] = IF j \in Pending THEN 1 ELSE 0

C1_Witness ==
    /\ main_pc = "returned"
    /\ Len(test_cases_total) = MaxPending
    /\ \E j \in Ids : rate_limit_count[j] >= 1
    /\ \E j \in Ids : IsErrorResult(future_result[j])
    /\ \A j \in Pending : write_calls[j] = 1

\* C2: when the process has ended, no inference call is outstanding and no
\* write has failed, generate_results has returned normally and every
\* submitted job's result has been written.
C2_AllWrittenAtExit ==
    (main_pc = "exited" /\ ~write_failed) =>
        /\ exit_status = 0
        /\ \A j \in Pending : write_calls[j] = 1

\* C3: collect_test_cases returns exactly the catalogue entries without a
\* persisted result, each once; a job with a persisted result is never
\* submitted and handler.inference is never invoked for it; exactly the
\* pending jobs are submitted.
C3_Resume ==
    LET catalogue == { all_test_entries_involved[i] :
                         i \in 1..Len(all_test_entries_involved) }
    IN  /\ main_pc # "collect" =>
             /\ Pending = catalogue \ existing_ids
             /\ Len(test_cases_total) = Cardinality(catalogue \ existing_ids)
        /\ \A j \in existing_ids : calls[j] = 0 /\ pc[j] = "new"
        /\ main_pc \in {"as_completed", "write", "aborting", "returned"} =>
             Len(futures) = NumJobs - Cardinality(existing_ids)

C3_Witness ==
    /\ main_pc = "returned"
    /\ existing_ids \cap (1..MaxPending) # {}
    /\ Len(futures) = 2
    /\ \A j \in Ids \ existing_ids : calls[j] >= 1 /\ write_calls[j] = 1

\* A step in which handler.inference raises for job j (exc' is what it raised).
FailureStep(j) ==
    /\ pc[j] = "infer"
    /\ \/ pc'[j] = "wait"
       \/ pc'[j] = "infer" /\ calls'[j] # calls[j]
       \/ pc'[j] = "done" /\ IsErrorResult(future_result'[j])

\* C4: a failure that is not classified transient ends the job in the same
\* step: no further call of handler.inference, no wait, and the job's result
\* is an error result with the job's id and the error's message; every
\* earlier call had failed transiently, so a job that only fails this way is
\* invoked exactly once.
C4_FatalNeverRetried ==
    [][ \A j \in Ids :
          (FailureStep(j) /\ ~IsTransient(exc'[j])) =>
              /\ pc'[j] = "done"
              /\ calls'[j] = calls[j]
              /\ calls[j] = rate_limit_count[j] + 1
              /\ elapsed2'[j] = elapsed2[j]
              /\ dynamic_delay'[j] = dynamic_delay[j]
              /\ rate_limit_count[j] = 0 => (calls'[j] = 1 /\ dynamic_delay'[j] = -1)
              /\ future_result'[j]["id"] = j
              /\ future_result'[j]["result"] = [kind |-> "error", msg |-> exc'[j].msg]
      ]_vars

C4_Witness ==
    \E j \in Ids :
        /\ pc[j] = "done"
        /\ IsErrorResult(future_result[j])
        /\ ~IsTransient(exc[j])
        /\ calls[j] = 1
        /\ future_result[j]["result"].msg = exc[j].msg

\* C5: once a handler.write call has raised, the main thread is aborting or
\* the process has exited, the exit status is 1, the failed write was called
\* once, and no step calls handler.write again.
C5_WriteFailureAborts ==
    /\ [](write_failed =>
            /\ main_pc \in {"aborting", "exited"}
            /\ exit_status = 1
            /\ write_calls[cur_future] = 1)
    /\ [][write_failed => write_calls' = write_calls]_vars

C5_Witness ==
    /\ write_failed
    /\ main_pc = "exited"
    /\ exit_status = 1
    /\ \E j \in Pending : done(j) /\ write_calls[j] = 0 /\ j \notin yielded

\* C6: once a handler.write call has raised, no step starts another call of
\* handler.inference.
C6_NoInferenceAfterAbort ==
    [][write_failed => calls' = calls]_vars

\* C7: no worker's future ends with an exception, and the run is terminated
\* with status 1 only after a handler.write call has raised.
C7_OnlyWriteFailureTerminates ==
    /\ \A j \in Ids : pc[j] # "raised"
    /\ exit_status = 1 => write_failed

\* C8: a failure whose message contains timeout phrasing is followed in the
\* same step by the next call of handler.inference: the job does not enter
\* the wait loop, its wait locals are untouched and it polls no stall signal
\* (the step records no poke on the job).
C8_TimeoutRetriesAtOnce ==
    [][ \A j \in Ids :
          (/\ FailureStep(j)
           /\ \/ Contains(Lower(exc'[j].msg), "timeout")
              \/ Contains(Lower(exc'[j].msg), "timed out")) =>
              /\ pc'[j] = "infer"
              /\ calls'[j] = calls[j] + 1
              /\ elapsed2'[j] = elapsed2[j]
              /\ active_count'[j] = active_count[j]
              /\ dynamic_delay'[j] = dynamic_delay[j]
              /\ ("_last_poke_time" \in test_case'[j]) =
                     ("_last_poke_time" \in test_case[j])
      ]_vars

C8_Witness ==
    \E j \in Ids :
        /\ pc[j] = "infer"
        /\ calls[j] = 2
        /\ rate_limit_count[j] = 1
        /\ Contains(Lower(exc[j].msg), "timeout")
        /\ exc[j].status_code = 429
        /\ get_active_count >= 2
        /\ dynamic_delay[j] = -1

\* C9: the delay chosen is 5, 10, 15, 20, 35, 45 s for 1..6 active jobs
\* observed and RETRY_DELAY = 65 s for 7 or more.
C9_DelaySchedule ==
    \A j \in Ids :
        active_count[j] # -1 =>
            /\ active_count[j] = 1 => dynamic_delay[j] = 5
            /\ active_count[j] = 2 => dynamic_delay[j] = 10
            /\ active_count[j] = 3 => dynamic_delay[j] = 15
            /\ active_count[j] = 4 => dynamic_delay[j] = 20
            /\ active_count[j] = 5 => dynamic_delay[j] = 35
            /\ active_count[j] = 6 => dynamic_delay[j] = 45
            /\ active_count[j] >= 7 => (dynamic_delay[j] = RETRY_DELAY /\ RETRY_DELAY = 65)

C9_Witness ==
    \E j, k \in Ids :
        /\ active_count[j] = 1 /\ dynamic_delay[j] = 5
        /\ active_count[k] = 10 /\ dynamic_delay[k] = 65

\* C10: the delay a worker chose for the active count it observed is not
\* larger than the delay of any larger count a worker can observe.
C10_MonotoneDelay ==
    \A j \in Ids :
        active_count[j] # -1 =>
            \A b \in active_count[j]..NumJobs :
                dynamic_delay[j] <= DynamicDelay(b)

\* C11: a transient failure never ends a job, whatever the number of
\* retries before it (RETRY_LIMIT is not consulted): the step goes on to the
\* next call or to a wait; a job that has returned a success result was
\* invoked once more than it failed transiently, and a job that returned an
\* error result failed with an error outside the transient class.
C11_NoRetryCap ==
    /\ [][ \A j \in Ids :
            (FailureStep(j) /\ IsTransient(exc'[j])) =>
                /\ pc'[j] \in {"infer", "wait"}
                /\ rate_limit_count'[j] = rate_limit_count[j] + 1
        ]_vars
    /\ [](\A j \in Ids :
            pc[j] = "done" =>
                IF IsErrorResult(future_result[j])
                THEN ~IsTransient(exc[j])
                ELSE /\ calls[j] = rate_limit_count[j] + 1
                     /\ future_result[j]["result"].kind = "payload")

C11_Witness ==
    /\ pc[1] = "done"
    /\ ~IsErrorResult(future_result[1])
    /\ rate_limit_count[1] = RETRY_LIMIT + 2
    /\ calls[1] = RETRY_LIMIT + 3
    /\ write_calls[1] = 1

\* C12: a failure whose message carries a content-policy marker ends the job
\* in the same step, without another call or a wait, with a result tagged
\* content_filter; and the step that consumes a result so tagged adds exactly
\* one to the content-filter counter.
C12_ContentFilterFatal ==
    /\ [][ \A j \in Ids :
            (FailureStep(j) /\ IsContentFilter(exc'[j].msg)) =>
                /\ pc'[j] = "done"
                /\ calls'[j] = calls[j]
                /\ future_result'[j]["_error_type"] = "content_filter"
        ]_vars
    /\ [][ \A j \in Ids :
            (/\ main_pc = "as_completed" /\ main_pc' = "write" /\ cur_future' = j
             /\ IsContentFilter(exc[j].msg)) =>
                error_counts'.content_filter = error_counts.content_filter + 1
        ]_vars

\* C13: whenever the main thread is at the call of handler.write, the
\* result it hands over has none of the internal fields.
C13_NoInternalFieldWritten ==
    main_pc = "write" =>
        (DOMAIN cur_result) \cap ({"_error_type"} \cup InternalFields) = {}

C13_Witness ==
    /\ main_pc = "write"
    /\ "_rate_limit_count" \in DOMAIN future_result[cur_future]
    /\ rate_limit_count[cur_future] >= 1
    /\ cur_result = [id |-> cur_future,
                     result |-> [kind |-> "payload", msg |-> {}],
                     latency |-> 1]
    /\ \E k \in Ids : /\ write_calls[k] = 1
                       /\ "_error_type" \in DOMAIN future_result[k]

\* A step that is a pass of job j's wait loop.
WaitPass(j) ==
    /\ pc[j] = "wait"
    /\ (pc'[j] # pc[j] \/ elapsed2'[j] # elapsed2[j])

\* C14: every pass of a worker's wait loop polls the stall signal first.  If
\* it is set the pass abandons the wait: it puts _last_poke_time on the job,
\* sleeps nothing and the next call of handler.inference starts.  If it is
\* clear the pass sleeps one slice of 0.5 s, and the next call starts only
\* when the slices add up to the delay.
C14_PollBeforeEachSlice ==
    [][ \A j \in Ids :
          WaitPass(j) =>
              IF stall_event
              THEN /\ pc'[j] = "infer"
                   /\ calls'[j] = calls[j] + 1
                   /\ elapsed2'[j] = elapsed2[j]
                   /\ "_last_poke_time" \in test_case'[j]
              ELSE /\ elapsed2'[j] = elapsed2[j] + 1
                   /\ test_case'[j] = test_case[j]
                   /\ pc'[j] = IF elapsed2'[j] < 2 * dynamic_delay[j]
                                THEN "wait" ELSE "infer"
                   /\ calls'[j] = IF pc'[j] = "infer"
                                   THEN calls[j] + 1 ELSE calls[j]
      ]_vars

C14_Witness ==
    \E j \in Ids :
        /\ pc[j] = "infer"
        /\ calls[j] = 2
        /\ "_last_poke_time" \in test_case[j]
        /\ elapsed2[j] >= 3
        /\ elapsed2[j] < 2 * dynamic_delay[j]

\* C15: no step clears the stall signal while a worker that was in its wait
\* when the signal was set is still waiting: a waiting worker whose last poll
\* found the signal clear (elapsed > 0) polls it again before it is cleared.
C15_NoPulseMissed ==
    [][ (stall_event /\ ~stall_event') =>
            \A j \in Ids : ~(pc[j] = "wait" /\ elapsed2[j] >= 1)
      ]_vars

\* C16: when the watchdog has run with 1..8 jobs in flight at every moment
\* since the idle time crossed 10 s, and 11 s have passed since with no
\* completion recorded, it has set the stall signal in this idle period.
C16_PulseWithin11s ==
    (since_completion2 >= 2 * (STALL_IDLE_SECONDS + 11) /\ quiet2 >= 2 * 11 + 1)
        => signaled # {}

C18_OncePerBoundary ==
    [][ (/\ wd_pc = "sleep" /\ wd_timer = 0 /\ wd_timer' > 0
         /\ 1 <= get_active_count /\ get_active_count <= 8
         /\ since_completion2 > 2 * 10
         /\ (since_completion2 \div 2) % 10 = 0) =>
            ((poke_count' = poke_count + 1 /\ stall_event')
                <=> (since_completion2 \div 2) \notin signaled)
      ]_vars

\* C19: a pass of the watchdog that finds no job in flight ends the loop and
\* sets nothing; such a pass is at most 1 s away while the watchdog sleeps
\* (0.5 s more when a pulse is in progress); and once the loop has ended the
\* watchdog never runs again nor sets the stall signal.
C19_WatchdogExits ==
    /\ [][ (/\ wd_pc = "sleep" /\ wd_timer = 0 /\ get_active_count = 0
            /\ (wd_pc' # wd_pc \/ wd_timer' # wd_timer)) =>
               (wd_pc' = "exited" /\ stall_event' = stall_event
                /\ poke_count' = poke_count)
        ]_vars
    /\ [][ wd_pc = "exited" =>
               (wd_pc' = "exited" /\ poke_count' = poke_count
                /\ (stall_event' => stall_event))
        ]_vars
    /\ [](/\ wd_pc = "sleep" => wd_timer \in 0..2
          /\ wd_pc = "pulse" => wd_timer \in 0..1)

C19_Witness ==
    /\ wd_pc = "exited"
    /\ main_pc = "as_completed"
    /\ Len(futures) = 2
    /\ get_active_count = 0
    /\ poke_count >= 1
    /\ since_completion2 <= 2

\* C20: at most args.num_threads jobs are in an inference call or a retry
\* wait; a queued job is started only from a state with fewer than that many
\* in processing; and a job in processing stays so, through its retries and
\* waits, until its worker returns its result or raises.
C20_PoolBound ==
    /\ [](Cardinality({ j \in Ids : pc[j] \in {"infer", "wait"} }) <= NumThreads)
    /\ [][ \A j \in Ids :
            (pc[j] = "queued" /\ pc'[j] # "queued") =>
                Cardinality({ k \in Ids : pc[k] \in {"infer", "wait"} }) < NumThreads
        ]_vars
    /\ [][ \A j \in Ids :
            (pc[j] \in {"infer", "wait"} /\ pc'[j] \notin {"infer", "wait"}) =>
                /\ pc'[j] \in {"done", "raised"}
                /\ pc'[j] = "done" => future_result'[j]["id"] = j
        ]_vars

C20_Witness ==
    /\ Cardinality({ j \in Ids : pc[j] \in {"infer", "wait"} }) = NumThreads
    /\ \E j \in Ids : pc[j] = "wait" /\ elapsed2[j] >= 1
    /\ \E j \in Ids : pc[j] = "queued"
    /\ main_pc = "as_completed"

\* C21: once a job's worker has returned its result, handler.write is
\* eventually called for that job (or a handler.write call has raised, which
\* ends the run), whatever the other jobs do, even if one never finishes.
C21_EmittedWhenAvailable ==
    \A j \in Ids :
        (pc[j] = "done") ~> (write_calls[j] >= 1 \/ write_failed)

\* C22: handler.write is called by the main thread only, one call at a time:
\* a step that counts a write is the end of the one call in progress and
\* counts it for the future of the current loop body alone; and while a call
\* is in progress no other future is taken and the result handed over does
\* not change, whatever the workers finish meanwhile.
C22_WritesOneAtATime ==
    /\ [][ write_calls' # write_calls =>
             /\ main_pc = "write" /\ main_pc' # "write"
             /\ write_calls' = [write_calls EXCEPT ![cur_future] = @ + 1]
        ]_vars
    /\ [][ main_pc = "write" =>
             /\ cur_future' = cur_future
             /\ cur_result' = cur_result
             /\ yielded' = yielded
        ]_vars

C22_Witness ==
    /\ main_pc = "write"
    /\ \E k \in Ids : k # cur_future /\ write_calls[k] = 1
    /\ \E k \in Ids : k # cur_future /\ pc[k] = "done" /\ k \notin yielded
    /\ write_calls[cur_future] = 0

\* The failures the classification rule names: status 429, 500 or 503, the
\* phrase "rate limit", timeout phrasing, or a provider's overload string.
NamedTransient(e) ==
    \/ e.status_code \in {429, 500, 503}
    \/ Contains(Lower(e.msg), "rate limit")
    \/ Contains(Lower(e.msg), "timeout")
    \/ Contains(Lower(e.msg), "timed out")
    \/ Contains(e.msg, "overload_zh")
    \/ Contains(Lower(e.msg), "relay error")

\* C23: a failure of handler.inference is retried (at once or after a wait)
\* exactly when its status code is 429, 500 or 503 or its message contains
\* "rate limit", timeout phrasing or a provider's overload string; any other
\* failure ends the job with an error result.
C23_TransientClassification ==
    [][ \A j \in Ids :
          FailureStep(j) =>
              (pc'[j] \in {"infer", "wait"} <=> NamedTransient(exc'[j]))
      ]_vars

\* C24: a call of collect_test_cases changes neither the catalogue nor the
\* persisted results, so that the jobs it returns are, at every call of the
\* invocation, the ones computed from the entries as they were loaded.
C24_CollectHasNoSideEffect ==
    [][ (main_pc = "collect" /\ main_pc' # "collect") =>
            /\ existing_ids' = existing_ids
            /\ all_test_entries_involved' = all_test_entries_involved
            /\ \A i \in 1..Len(test_cases_total') :
                 LET id == test_cases_total'[i]
                 IN  entry'[id] = ProcessEntry(id, LoadedEntry(id))
      ]_vars

\* C25: the sequence collect_test_cases returns lists the entries without a
\* persisted result in strictly ascending sort_key, whatever the order of the
\* catalogue: it is a function of the set of pending jobs.  The futures are
\* submitted in that order and the pool starts the jobs in that order.
C25_SortedSubmission ==
    main_pc # "collect" =>
        /\ Pending = Ids \ existing_ids
        /\ \A i, k \in 1..Len(test_cases_total) :
             i < k => sort_key(test_cases_total[i]) < sort_key(test_cases_total[k])
        /\ futures = SubSeq(test_cases_total, 1, Len(futures))
        /\ \A i, k \in 1..Len(test_cases_total) :
             (i < k /\ pc[test_cases_total[k]] \notin {"new", "queued"}) =>
                 pc[test_cases_total[i]] \notin {"new", "queued"}

C25_Witness ==
    /\ main_pc = "as_completed"
    /\ all_test_entries_involved[1] \notin {1, NumJobs}
    /\ test_cases_total = <<2, 5, NumJobs>>
    /\ futures = test_cases_total
    /\ pc[2] = "done" /\ pc[5] = "infer" /\ pc[NumJobs] = "infer"

\* The in-flight set: the futures of the list that are not done.
InFlight == { futures[i] : i \in { k \in 1..Len(futures) : ~done(futures[k]) } }

\* C26: a step of the display thread leaves the stall signal, the time of
\* the last completion, the futures and every job as they are.  Over all
\* steps: the stall signal is set by a pass of the watchdog only; the time
\* since the last completion only grows with time, or restarts when the
\* result loop takes a future; and the in-flight set changes only by the
\* future just appended or by one job whose worker returns or raises.
C26_DispatchStateOwners ==
    /\ [][ (display_pc # "off" /\ display_pc' # display_pc /\ display_pc' # "off") =>
              UNCHANGED << stall_event, since_completion2, futures, pc,
                           test_case, wd_pc, main_pc >>
        ]_vars
    /\ [][ (~stall_event /\ stall_event') =>
              (wd_pc = "sleep" /\ wd_pc' = "pulse" /\ UNCHANGED << pc, main_pc >>)
        ]_vars
    /\ [][ since_completion2' # since_completion2 =>
              \/ since_completion2' = since_completion2 + 1 /\ UNCHANGED << pc, main_pc >>
              \/ /\ since_completion2' = 0
                 /\ main_pc = "as_completed" /\ main_pc' = "write"
        ]_vars
    /\ [][ InFlight' # InFlight =>
              \/ /\ main_pc = "append"
                 /\ futures' = Append(futures, test_cases_total[next_submit])
                 /\ InFlight' = InFlight \cup {test_cases_total[next_submit]}
              \/ \E j \in InFlight :
                    /\ InFlight' = InFlight \ {j}
                    /\ pc[j] \in {"queued", "infer"}
                    /\ done(j)'
        ]_vars

C26_Witness ==
    /\ display_pc = "exited"
    /\ wd_pc = "sleep"
    /\ poke_count >= 1
    /\ since_completion2 >= 1
    /\ \E j \in Ids : rate_limit_count[j] >= 1 /\ pc[j] = "done"
    /\ main_pc = "as_completed"
    /\ pbar_n >= 1
    /\ InFlight = {}

\* C27: in the run of three jobs on two workers, handler.inference is called
\* at most once for job 1, twice for job 2 and once for job 3; the delay
\* before job 2's second call is one the schedule gives for 1 to 3 jobs in
\* flight (5, 10 or 15 s); and when generate_results has returned, the
\* calls were exactly 1, 2 and 1, each job's result was written once and
\* job 3's is an error result.
C27_ThreeJobsTwoWorkers ==
    /\ calls[1] <= 1 /\ calls[2] <= 2 /\ calls[3] <= 1
    /\ calls[2] = 2 => dynamic_delay[2] \in {5, 10, 15}
    /\ main_pc = "returned" =>
         /\ calls[1] = 1 /\ calls[2] = 2 /\ calls[3] = 1
         /\ \A j \in Ids : write_calls[j] = (IF j \in {1, 2, 3} THEN 1 ELSE 0)
         /\ pbar_n = 3
         /\ IsErrorResult(future_result[3])
         /\ ~IsErrorResult(future_result[1]) /\ ~IsErrorResult(future_result[2])

\* The internal keys multi_threaded_inference and the submission loop put on
\* a job dict.
ExecutionMetadata ==
    {"_processing_start_time", "_rate_limit_count", "_last_retry_time",
     "_last_poke_time"} \cup CallbackHandles

\* C28: a job whose result has been written carries none of its execution
\* metadata any more, and when main calls collect_test_cases (for the first
\* model or a later one) no job dict carries any.
C28_MetadataDiscarded ==
    /\ \A j \in Ids :
         write_calls[j] >= 1 => test_case[j] \cap ExecutionMetadata = {}
    /\ main_pc = "collect" =>
         \A j \in Ids : test_case[j] \cap ExecutionMetadata = {}

\* C29: the watchdog thread has not left its loop unless every job of
\* test_cases_total has been submitted and its future is done.
C29_WatchdogOutlivesWork ==
    wd_pc = "exited" =>
        /\ Len(futures) = Len(test_cases_total)
        /\ main_pc \notin {"submit", "append"}
        /\ \A j \in Pending : done(j)

\* C30: the active count a worker has read for the delay table is at least
\* 1, and the job it retries is itself among the futures counted.
C30_CountIncludesSelf ==
    \A j \in Ids :
        pc[j] = "wait" =>
            /\ active_count[j] >= 1
            /\ j \in InFlight

\* C31: the call of handler.inference that follows a wait starts only after
\* at least one slice of 0.5 s of that wait has been slept, whether or not
\* the stall signal was set when the failure occurred.
C31_NoBackToBackRetry ==
    [][ \A j \in Ids :
          (pc[j] = "wait" /\ pc'[j] = "infer") => elapsed2'[j] >= 1
      ]_vars

\* The jobs given to executor.submit whose worker has neither returned nor
\* raised, queued ones included.
Unfinished == { j \in Ids : pc[j] \in {"queued", "infer", "wait"} }

\* C32: whenever a worker or the watchdog may read it, the in-flight count
\* is the number of submitted jobs that are not finished; a worker that
\* enters a wait has read that number.
C32_InFlightCount ==
    /\ [](get_active_count = Cardinality(Unfinished))
    /\ [][ \A j \in Ids :
             (pc[j] = "infer" /\ pc'[j] = "wait") =>
                 active_count'[j] = Cardinality(Unfinished)
        ]_vars

\* C33: error_counts["rate_limit"] is the sum of the jobs' own
\* rate_limit_count, after every step; and when every submitted job has
\* returned its result it is the number of calls of handler.inference that
\* failed transiently, rate-limit and timeout failures alike (every call of
\* a job but its last).
C33_NoLostRateLimitUpdate ==
    /\ error_counts.rate_limit = SumOver(rate_limit_count, Ids)
    /\ (Pending # {} /\ \A j \in Pending : pc[j] = "done") =>
          error_counts.rate_limit = SumOver([j \in Ids |-> calls[j] - 1], Pending)

C33_Witness ==
    /\ \A j \in {1, 2} : pc[j] = "done"
    /\ rate_limit_count[1] >= 1 /\ rate_limit_count[2] >= 1
    /\ Contains(Lower(exc[1].msg), "timeout")
    /\ Contains(Lower(exc[2].msg), "rate limit reached")
    /\ error_counts.rate_limit = MaxCounted


\* C34: while the process runs, the stall signal is set only during the
\* watchdog's pulse (its sleep of 0.5 s after stall_event.set()); whenever
\* it is set it is cleared again, by the watchdog at the end of the pulse
\* or earlier by the result loop; and it is clear when the watchdog has left
\* its loop.
C34_StallSignalIsAPulse ==
    /\ [](stall_event => wd_pc = "pulse")
    /\ [](wd_pc = "exited" => ~stall_event)
    /\ stall_event ~> (~stall_event \/ ~Alive)

C34_Witness ==
    /\ Alive
    /\ poke_count >= 1
    /\ wd_pc = "exited"
    /\ ~stall_event


\* C35: the delay of a wait is the one of the table for the active count
\* sampled when the wait starts, and neither changes while the job waits;
\* a wait whose last poll finds the stall signal clear ends only when the
\* slices of 0.5 s slept add up to that delay (2 x delay slices), whatever
\* the active count has become in the meantime.
C35_OnlyPulseShortensWait ==
    [][ \A j \in Ids :
          /\ (pc[j] = "infer" /\ pc'[j] = "wait") =>
                /\ dynamic_delay'[j] = DynamicDelay(active_count'[j])
                /\ elapsed2'[j] = 0
          /\ pc[j] = "wait" =>
                /\ dynamic_delay'[j] = dynamic_delay[j]
                /\ active_count'[j] = active_count[j]
          /\ (pc[j] = "wait" /\ pc'[j] = "infer" /\ ~stall_event) =>
                elapsed2'[j] = 2 * dynamic_delay[j]
      ]_vars

C35_Witness ==
    \E j \in Ids :
        /\ pc[j] = "infer"
        /\ calls[j] = 2
        /\ "_last_poke_time" \notin test_case[j]
        /\ elapsed2[j] = 2 * dynamic_delay[j]
        /\ get_active_count < active_count[j]
        /\ DynamicDelay(get_active_count) < dynamic_delay[j]


\* C36: at every moment the progress bar's count of completed jobs is at
\* most the number of handler.write calls that returned, and when a run in
\* which no handler.write call failed has ended the count is the number of
\* jobs submitted.
C36_CompletedAfterWrite ==
    /\ pbar_n <= SumOver(write_calls, Ids) - (IF write_failed THEN 1 ELSE 0)
    /\ (main_pc \in {"returned", "exited"} /\ ~write_failed) =>
          pbar_n = Len(test_cases_total)


\* C37: a run that main skips (main passes it at lines 499-501, or run_bfcl_test
\* returns True for it without starting the generation or the evaluation)
\* is complete in the sense of check_run_complete: its results.json lists
\* every requested category and every category's score file exists.
C37_SkippedOnlyIfComplete ==
    [][ \A run \in Runs :
          (run \in skipped' /\ run \notin skipped) =>
              /\ run \notin generated' /\ run \notin evaluated'
              /\ check_run_complete(run, ALL_TEST_CATEGORIES)
      ]_vars


\* C38: while a call of handler.inference is running or its failure is
\* waited out, the three callback handles are on the job; the count a wait
\* is computed from is the one get_active_count gives at that moment, not the
\* default 999; and every pass of a wait loop is one of the polling loop, on
\* a job that has the stall event: with the signal clear it sleeps in slices
\* (elapsed advances).
C38_HandlesRestored ==
    /\ [](\A j \in Ids : Running(j) => CallbackHandles \subseteq test_case[j])
    /\ [][ \A j \in Ids :
             /\ (pc[j] = "infer" /\ pc'[j] = "wait") =>
                   /\ active_count'[j] = get_active_count
                   /\ active_count'[j] # DEFAULT_ACTIVE_COUNT
             /\ WaitPass(j) =>
                   /\ "_stall_event" \in test_case[j]
                   /\ (~stall_event => elapsed2'[j] > elapsed2[j])
         ]_vars

C38_Witness ==
    \E j \in Ids :
        /\ pc[j] = "wait"
        /\ rate_limit_count[j] >= 2
        /\ elapsed2[j] >= 1
        /\ CallbackHandles \subseteq test_case[j]
        /\ active_count[j] \in 1..NumThreads

=============================================================================
